---- MODULE Spec2Model ----
(***************************************************************************)
(* Vertex AI Proxy v22.0 (src/proxy.py): the message sanitizer             *)
(* role_flip_sanitize, the model router parse_model_id, the token provider *)
(* get_vertex_token and the request handler chat_completions with its      *)
(* stream generator monitored_stream_generator.                            *)
(*                                                                         *)
(* Data representation.  A Python dict is a function whose DOMAIN is its   *)
(* key set ("k in d" is k \in DOMAIN d, "del d[k]" restricts the domain).  *)
(* A Python str is a sequence of tokens; a token is a run of characters    *)
(* that the code never splits except by slicing, and every literal the     *)
(* code writes is tokenised the same way each time, so that equality of    *)
(* token sequences is equality of strings.  The four substrings the        *)
(* regular expression of line 114 searches for are tokens of their own.    *)
(* A value whose Python type varies (content, tool_calls, function_call)   *)
(* is a record tagged with its type.                                       *)
(***************************************************************************)
EXTENDS Integers, Sequences, FiniteSets, TLC

VARIABLES
    \* ---- sanitizer harness (specification SanSpec) ----
    san_pc,      \* "input" | "once" | "twice"
    san_body,    \* the request body given to role_flip_sanitize
    san_out1,    \* result of role_flip_sanitize(san_body)
    san_out2,    \* result of role_flip_sanitize on the body of san_out1
    \* ---- request handler (specification Spec) ----
    pc,          \* per request: position of chat_completions
    body,        \* per request: raw_body / body (the same dict object)
    outreq,      \* per request: the outbound request handed to http_client.send
    response,    \* per request: id of the httpx response it holds (0: none)
    reply,       \* per request: what the caller has been answered
    gen,         \* per request: state of monitored_stream_generator
    responses,   \* per response id: the backend response object
    next_id,     \* next response id http_client.send hands out
    log          \* per request: the tags printed so far

san_vars == <<san_pc, san_body, san_out1, san_out2>>
req_vars == <<pc, body, outreq, response, reply, gen, responses, next_id, log>>
vars == <<san_pc, san_body, san_out1, san_out2,
          pc, body, outreq, response, reply, gen, responses, next_id, log>>

-----------------------------------------------------------------------------
(* Bounds of the model *)

\* MAX_LOG_LENGTH is 2 * HalfLogLength (30000 in the source, an even number)
HalfLogLength == 2
\* longest message list drawn from CoreMsgs
MaxMsgs == 2
\* most chunks a backend response body has
MaxChunks == 3

-----------------------------------------------------------------------------
(* Python values *)

EmptyDict == [k \in {} |-> 0]

Del(d, k) == [j \in DOMAIN d \ {k} |-> d[j]]

Put(d, k, v) == (k :> v) @@ d

\* content values: str, None, list of blocks, int
CStr(s) == [t |-> "str", s |-> s, b |-> <<>>, n |-> 0]
CNone == [t |-> "none", s |-> <<>>, b |-> <<>>, n |-> 0]
CList(b) == [t |-> "list", s |-> <<>>, b |-> b, n |-> 0]
CInt(n) == [t |-> "int", s |-> <<>>, b |-> <<>>, n |-> n]

\* a block of a content list: {"text": s, ...}, a bare str, or a dict without "text"
TextBlock(s) == [k |-> "text", s |-> s]
StrBlock(s) == [k |-> "str", s |-> s]
ImageBlock == [k |-> "image", s |-> <<>>]

\* tool_calls values: a list of calls, or None
TCList(v) == [t |-> "list", v |-> v]
TCNone == [t |-> "none", v |-> <<>>]

\* one entry of tool_calls: {"function": {"name": n}}, {"function": {}}, {},
\* {"function": None}
Call(shape, name) == [shape |-> shape, name |-> name]

\* function_call values: {"name": n}, {} or None
FCDict(name) == [t |-> "dict", has_name |-> TRUE, name |-> name]
FCNoName == [t |-> "dict", has_name |-> FALSE, name |-> ""]
FCNone == [t |-> "none", has_name |-> FALSE, name |-> ""]

Digits == <<"0", "1", "2", "3", "4", "5", "6", "7", "8", "9">>

\* str(n) for n >= 0
RECURSIVE PyStrNat(_)
PyStrNat(n) ==
    IF n < 10 THEN <<Digits[n + 1]>>
    ELSE PyStrNat(n \div 10) \o <<Digits[(n % 10) + 1]>>

\* sep.join(parts)
RECURSIVE Join(_, _)
Join(parts, sep) ==
    IF parts = <<>> THEN <<>>
    ELSE IF Len(parts) = 1 THEN parts[1]
    ELSE parts[1] \o sep \o Join(Tail(parts), sep)

\* s[:k] and s[-k:] for 0 < k
Head_(s, k) == SubSeq(s, 1, IF k < Len(s) THEN k ELSE Len(s))
Tail_(s, k) == SubSeq(s, IF Len(s) - k + 1 > 1 THEN Len(s) - k + 1 ELSE 1, Len(s))

\* "t in s" for two strings: t occurs in s as a contiguous run
IsSubSeq(t, s) ==
    \E i \in 0..(Len(s) - Len(t)) : \A j \in 1..Len(t) : s[i + j] = t[j]

-----------------------------------------------------------------------------
(* Configuration: src/proxy.py lines 49-53 *)

MAX_LOG_LENGTH == 2 * HalfLogLength

REASONING_LEVELS == <<
    [suffix |-> "none", effort |-> "minimal"],
    [suffix |-> "low", effort |-> "low"],
    [suffix |-> "medium", effort |-> "medium"],
    [suffix |-> "high", effort |-> "high"] >>

-----------------------------------------------------------------------------
(* role_flip_sanitize: src/proxy.py lines 56-141 *)

NL == "\n"

\* lines 62-72: the directive; it quotes '[System Log]'
system_instruction ==
    [role |-> "system",
     content |-> CStr(<<"[SYSTEM INSTRUCTION:", NL,
                        "1. You are an autonomous Agent.", NL,
                        "2. The '", "[System Log", "]' in history represents the OUTPUT of tools you just ran.", NL,
                        "3-5. (rules)", "]">>)]

\* line 114: the substrings re.search looks for
MarkerTokens == {"[Past Action", "[System Log", "[Log:", "[Internal Context"}

\* line 114: re.search(r"\[Past Action|\[System Log|\[Log:|\[Internal Context", s)
HasMarker(s) == \E i \in 1..Len(s) : s[i] \in MarkerTokens

\* new_msg.get("role"); "<None>" is Python's None
RoleOf(msg) == IF "role" \in DOMAIN msg THEN msg["role"] ELSE "<None>"

\* new_msg.get("content")
ContentOf(msg) == IF "content" \in DOMAIN msg THEN msg["content"] ELSE CNone

\* lines 82-86: the text parts of a content list
RECURSIVE TextParts(_)
TextParts(blocks) ==
    IF blocks = <<>> THEN <<>>
    ELSE (IF blocks[1].k \in {"text", "str"} THEN <<blocks[1].s>> ELSE <<>>)
         \o TextParts(Tail(blocks))

\* lines 80-91: content flattened to a str
Flatten(msg) ==
    LET raw == ContentOf(msg) IN
    CASE raw.t = "str" -> raw.s
      [] raw.t = "list" -> Join(TextParts(raw.b), <<NL>>)
      [] raw.t = "none" -> <<>>
      [] raw.t = "int" -> IF raw.n = 0 THEN <<>> ELSE PyStrNat(raw.n)

\* line 103: tc.get("function", {}).get("name", "tool"); raises on "function": None
CallRaises(tc) == tc.shape = "nullfunction"
CallName(tc) == IF tc.shape = "named" THEN tc.name ELSE "tool"

\* lines 102-104
RECURSIVE ToolLog(_)
ToolLog(calls) ==
    IF calls = <<>> THEN <<>>
    ELSE <<NL, "[Log:", " Tool '", CallName(calls[1]), "' called]">> \o ToolLog(Tail(calls))

\* line 110: fc.get('name') formatted into the f-string
FunctionLog(fc) ==
    <<NL, "[Log:", " Function '", IF fc.has_name THEN fc.name ELSE "None", "' called]">>

\* lines 101-102 and 108-110: the iterations and calls that raise
FlipRaises(msg) ==
    \/ /\ "tool_calls" \in DOMAIN msg
       /\ \/ msg["tool_calls"].t = "none"
          \/ \E i \in 1..Len(msg["tool_calls"].v) : CallRaises(msg["tool_calls"].v[i])
    \/ /\ "function_call" \in DOMAIN msg
       /\ msg["function_call"].t = "none"

\* lines 97-119, for a message whose original role is assistant or model
FlipAssistant(msg, content_str) ==
    LET has_tc == "tool_calls" \in DOMAIN msg
        has_fc == "function_call" \in DOMAIN msg
        log_suffix == (IF has_tc THEN ToolLog(msg["tool_calls"].v) ELSE <<>>)
                      \o (IF has_fc THEN FunctionLog(msg["function_call"]) ELSE <<>>)
        should_flip == has_tc \/ has_fc \/ HasMarker(content_str)
        stripped == Del(Del(msg, "tool_calls"), "function_call")
    IN  IF should_flip
        THEN Put(Put(stripped, "role", "user"), "content",
                 CStr(<<"[Internal Context", ": Assistant's previous action]", NL>>
                      \o content_str \o <<NL>> \o log_suffix))
        ELSE stripped

\* Truncate with >= in place of line 125's >
Truncate_AtOrAbove(content_str) ==
    IF Len(content_str) >= MAX_LOG_LENGTH
    THEN LET cut_len == Len(content_str) - MAX_LOG_LENGTH
             head == Head_(content_str, MAX_LOG_LENGTH \div 2)
             tail == Tail_(content_str, 0 - ((0 - MAX_LOG_LENGTH) \div 2))
         IN  head \o <<NL, NL, "[...System: Output Truncated (">> \o PyStrNat(cut_len)
                  \o <<" chars removed)...]", NL, NL>> \o tail
    ELSE content_str

\* lines 125-129
Truncate(content_str) ==
    IF Len(content_str) > MAX_LOG_LENGTH
    THEN LET cut_len == Len(content_str) - MAX_LOG_LENGTH
             head == Head_(content_str, MAX_LOG_LENGTH \div 2)
             tail == Tail_(content_str, 0 - ((0 - MAX_LOG_LENGTH) \div 2))
         IN  head \o <<NL, NL, "[...System: Output Truncated (">> \o PyStrNat(cut_len)
                  \o <<" chars removed)...]", NL, NL>> \o tail
    ELSE content_str

\* WrapTool without line 135: the name field stays
WrapTool_KeepsName(msg, content_str) ==
    Del(Put(Put(msg, "role", "user"), "content",
            CStr(<<"[Internal Execution Result - READ ONLY]", NL>>
                 \o Truncate(content_str)
                 \o <<NL, NL, "[SYSTEM: Action finished. Please report status to user now.]">>)),
        "tool_call_id")

\* WrapTool without line 123: the wrapped result keeps its tool/function role
WrapTool_KeepsRole(msg, content_str) ==
    Del(Del(Put(msg, "content",
                CStr(<<"[Internal Execution Result - READ ONLY]", NL>>
                     \o Truncate(content_str)
                     \o <<NL, NL, "[SYSTEM: Action finished. Please report status to user now.]">>)),
            "tool_call_id"), "name")

\* lines 122-135, for a message whose original role is tool or function
WrapTool(msg, content_str) ==
    Del(Del(Put(Put(msg, "role", "user"), "content",
                CStr(<<"[Internal Execution Result - READ ONLY]", NL>>
                     \o Truncate(content_str)
                     \o <<NL, NL, "[SYSTEM: Action finished. Please report status to user now.]">>)),
            "tool_call_id"), "name")

\* line 137
Placeholder(msg) ==
    IF msg["content"].s = <<>> THEN Put(msg, "content", CStr(<<".">>)) ELSE msg

\* SanitizeMsg with the marker test of line 114 applied whatever the role
SanitizeMsg_FlipsAnyRole(msg) ==
    LET original_role == RoleOf(msg)
        content_str == Flatten(msg)
        m1 == Put(msg, "content", CStr(content_str))
        m2 == IF original_role = "developer" THEN Put(m1, "role", "system") ELSE m1
        m3 == IF original_role \in {"assistant", "model"} \/ HasMarker(content_str)
              THEN FlipAssistant(m2, content_str) ELSE m2
        m4 == IF original_role \in {"tool", "function"}
              THEN WrapTool(m3, content_str) ELSE m3
    IN  Placeholder(m4)

\* lines 76-138: the loop body, for a message on which it does not raise
SanitizeMsg(msg) ==
    LET original_role == RoleOf(msg)
        content_str == Flatten(msg)
        m1 == Put(msg, "content", CStr(content_str))
        m2 == IF original_role = "developer" THEN Put(m1, "role", "system") ELSE m1
        m3 == IF original_role \in {"assistant", "model"}
              THEN FlipAssistant(m2, content_str) ELSE m2
        m4 == IF original_role \in {"tool", "function"}
              THEN WrapTool(m3, content_str) ELSE m3
    IN  Placeholder(m4)

\* lines 97-112: whether the loop body raises on this message
MsgRaises(msg) == RoleOf(msg) \in {"assistant", "model"} /\ FlipRaises(msg)

\* SanitizeAll with each cleaned message put in front of the earlier ones
RECURSIVE SanitizeAll_Reversed(_)
SanitizeAll_Reversed(msgs) ==
    IF msgs = <<>> THEN <<>>
    ELSE SanitizeAll_Reversed(Tail(msgs)) \o <<SanitizeMsg(msgs[1])>>

RECURSIVE SanitizeAll(_)
SanitizeAll(msgs) ==
    IF msgs = <<>> THEN <<>>
    ELSE <<SanitizeMsg(msgs[1])>> \o SanitizeAll(Tail(msgs))

\* lines 56-141: [raised |-> an exception left the function, body |-> the dict it
\* returned (the input dict, mutated)]
role_flip_sanitize(b) ==
    IF "messages" \notin DOMAIN b THEN [raised |-> FALSE, body |-> b]
    ELSE IF \E i \in 1..Len(b["messages"]) : MsgRaises(b["messages"][i])
    THEN [raised |-> TRUE, body |-> b]
    ELSE [raised |-> FALSE,
          body |-> Put(b, "messages", <<system_instruction>> \o SanitizeAll(b["messages"]))]

-----------------------------------------------------------------------------
(* Helper functions: src/proxy.py lines 144-162 *)

EndsWith(s, t) == Len(t) <= Len(s) /\ SubSeq(s, Len(s) - Len(t) + 1, Len(s)) = t

\* RSplitHead with split in place of rsplit: the part before the first occurrence
RSplitHead_First(s, sep) ==
    LET occ == {i \in 1..(Len(s) - Len(sep) + 1) : SubSeq(s, i, i + Len(sep) - 1) = sep}
    IN  IF occ = {} THEN s
        ELSE SubSeq(s, 1, (CHOOSE i \in occ : \A j \in occ : i <= j) - 1)

\* s.rsplit(sep, 1)[0]: the part of s before the last occurrence of sep
RSplitHead(s, sep) ==
    LET occ == {i \in 1..(Len(s) - Len(sep) + 1) : SubSeq(s, i, i + Len(sep) - 1) = sep}
    IN  IF occ = {} THEN s
        ELSE SubSeq(s, 1, (CHOOSE i \in occ : \A j \in occ : j <= i) - 1)

\* lines 154-157, from the i-th entry of REASONING_LEVELS on; "<None>" is None
RECURSIVE ParseFrom(_, _)
ParseFrom(model_id, i) ==
    IF i > Len(REASONING_LEVELS) THEN [base |-> model_id, effort |-> "<None>"]
    ELSE IF EndsWith(model_id, <<"-", REASONING_LEVELS[i].suffix>>)
    THEN [base |-> RSplitHead(model_id, <<"-", REASONING_LEVELS[i].suffix>>),
          effort |-> REASONING_LEVELS[i].effort]
    ELSE ParseFrom(model_id, i + 1)

\* lines 153-157
parse_model_id(model_id) == ParseFrom(model_id, 1)

\* lines 45-46: the configured project and region
VERTEX_AI_PROJECT == "my-project"
VERTEX_AI_REGION == "us-west1"

\* lines 159-162
get_endpoint_url(base_model) ==
    IF IsSubSeq(<<"gemini", "-", "3", "-">>, base_model)
    THEN <<"https://", "aiplatform.googleapis.com/v1/projects/", VERTEX_AI_PROJECT,
           "/locations/", "global", "/endpoints/openapi">>
    ELSE <<"https://", VERTEX_AI_REGION, "-aiplatform.googleapis.com/v1/projects/",
           VERTEX_AI_PROJECT, "/locations/", VERTEX_AI_REGION, "/endpoints/openapi">>

\* The environment get_vertex_token runs in: the VERTEX_ACCESS_TOKEN variable
\* ("" when unset or empty) and what the gcloud subprocess does
TokenEnvs ==
    {[access_token |-> <<"ya29.env">>, gcloud_ok |-> FALSE, stdout |-> <<>>],
     [access_token |-> <<>>, gcloud_ok |-> TRUE, stdout |-> <<"ya29.gcloud">>],
     [access_token |-> <<>>, gcloud_ok |-> FALSE, stdout |-> <<>>]}

\* lines 144-151: the token, "" when the subprocess raises
get_vertex_token(env) ==
    IF env.access_token # <<>> THEN env.access_token
    ELSE IF env.gcloud_ok THEN env.stdout
    ELSE <<>>

-----------------------------------------------------------------------------
(* Inputs of the sanitizer: every shape of a single message, and short lists
   of representative messages *)

Roles == {"system", "developer", "user", "assistant", "model", "tool", "function"}

Letters == <<"a", "b", "c", "d", "e", "f", "g", "h", "i", "j", "k", "l">>

\* a text of n distinct tokens
Text(n) == SubSeq(Letters, 1, n)

\* values of the content key
Contents ==
    {CStr(<<>>), CStr(<<"hi">>), CNone, CInt(0), CInt(7),
     CList(<<>>), CList(<<ImageBlock>>),
     CList(<<TextBlock(<<"a">>), ImageBlock, StrBlock(<<"b">>)>>),
     CStr(Text(MAX_LOG_LENGTH)), CStr(Text(MAX_LOG_LENGTH + 1)),
     CStr(Text(MAX_LOG_LENGTH + 3))}
    \cup {CStr(<<"see ", m, "]">>) : m \in MarkerTokens}

\* values of the tool_calls key
ToolCallLists ==
    {TCNone, TCList(<<>>), TCList(<<Call("named", "grep")>>),
     TCList(<<Call("named", "grep"), Call("named", "git")>>),
     TCList(<<Call("noname", "")>>), TCList(<<Call("nofunction", "")>>),
     TCList(<<Call("nullfunction", "")>>)}

\* values of the function_call key
FunctionCalls == {FCDict("run"), FCNoName, FCNone}

\* a key that is absent (has = FALSE) or present with a value of S
Opt(S) == {[has |-> FALSE, v |-> CHOOSE x \in S : TRUE]} \cup {[has |-> TRUE, v |-> x] : x \in S}

OptPut(d, k, o) == IF o.has THEN Put(d, k, o.v) ELSE d

MkMsg(role, c, tc, fc, id, nm) ==
    OptPut(OptPut(OptPut(OptPut(OptPut([role |-> role], "content", c),
        "tool_calls", tc), "function_call", fc), "tool_call_id", id), "name", nm)

MsgSpace ==
    {MkMsg(r, c, tc, fc, id, nm) :
        r \in Roles, c \in Opt(Contents), tc \in Opt(ToolCallLists),
        fc \in Opt(FunctionCalls), id \in Opt({"call_1"}), nm \in Opt({"bob"})}

CoreMsgs ==
    {[role |-> "user", content |-> CStr(<<"hi">>)],
     [role |-> "developer", content |-> CStr(<<"be brief">>)],
     [role |-> "assistant", content |-> CStr(<<"ok">>)],
     [role |-> "assistant", content |-> CNone,
      tool_calls |-> TCList(<<Call("named", "grep"), Call("named", "git")>>)],
     [role |-> "model", content |-> CStr(<<"see ", "[Past Action", "]">>)],
     [role |-> "tool", content |-> CStr(Text(MAX_LOG_LENGTH + 1)), tool_call_id |-> "call_1"]}

SeqsUpTo(S, n) == UNION {[1..k -> S] : k \in 0..n}

SanBodies ==
    {[model |-> "gemini-2.5-pro", messages |-> <<m>>] : m \in MsgSpace}
    \cup {[model |-> "gemini-2.5-pro", messages |-> ms] : ms \in SeqsUpTo(CoreMsgs, MaxMsgs)}
    \cup {[model |-> "gemini-2.5-pro"]}

NoResult == [raised |-> FALSE, body |-> EmptyDict]

-----------------------------------------------------------------------------
(* The sanitizer applied once, then again to its own output *)

\* body = role_flip_sanitize(raw_body)
SanitizeOnce ==
    /\ san_pc = "input"
    /\ san_out1' = role_flip_sanitize(san_body)
    /\ san_pc' = "once"
    /\ UNCHANGED <<san_body, san_out2>>

\* role_flip_sanitize applied to the body the first call returned
SanitizeTwice ==
    /\ san_pc = "once"
    /\ ~san_out1.raised
    /\ san_out2' = role_flip_sanitize(san_out1.body)
    /\ san_pc' = "twice"
    /\ UNCHANGED <<san_body, san_out1>>

-----------------------------------------------------------------------------
(* chat_completions and monitored_stream_generator: src/proxy.py lines 165-238 *)

\* the inbound requests being served concurrently, one task each
Requests == {"r1", "r2"}

\* the JSON bodies the callers send
ReqBodies ==
    {[model |-> <<"gemini", "-", "2.5", "-", "pro", "-", "high">>, stream |-> TRUE,
      messages |-> <<[role |-> "user", content |-> CStr(<<"hi">>)]>>],
     [model |-> <<"gemini", "-", "3", "-", "pro">>, tools |-> "tools",
      reasoning_effort |-> "low",
      messages |-> <<[role |-> "assistant", content |-> CNone,
                      tool_calls |-> TCList(<<Call("named", "grep")>>)],
                     [role |-> "tool", content |-> CStr(<<"ok">>), tool_call_id |-> "call_1"]>>],
     [model |-> <<"gemini", "-", "2.5", "-", "pro">>,
      messages |-> <<[role |-> "assistant", content |-> CStr(<<"x">>), tool_calls |-> TCNone]>>]}

\* status codes the backend answers with
Statuses == {200, 400, 503}

\* the i-th chunk of the body of response id
Chunk(id, i) == <<id, i>>

\* len(chunk)
ChunkLen(c) == c[2]

NoRequest == [url |-> <<>>, json |-> EmptyDict, headers |-> EmptyDict]
NoReply == [kind |-> "none", status |-> 0, body |-> <<>>, state |-> "none"]
NoGen == [pc |-> "none", chunk_count |-> 0, total_bytes |-> 0]
NoResponse == [status |-> 0, body |-> <<>>, pos |-> 0, is_closed |-> FALSE,
               releases |-> 0, broken |-> FALSE]

\* response.aclose(): releases the connection, once (httpx: a closed response
\* stays closed)
aclose(resp) ==
    IF resp.is_closed THEN resp
    ELSE [resp EXCEPT !.is_closed = TRUE, !.releases = @ + 1]

\* lines 234-238: the handler's except clause
Fail500(r, detail) ==
    /\ reply' = [reply EXCEPT ![r] = [kind |-> "http_exception", status |-> 500,
                                      body |-> <<detail>>, state |-> "sent"]]
    /\ log' = [log EXCEPT ![r] = @ \cup {"EXCEPTION"}]
    /\ pc' = [pc EXCEPT ![r] = "done"]
    /\ body' = [body EXCEPT ![r] = EmptyDict]
    /\ outreq' = [outreq EXCEPT ![r] = NoRequest]

\* line 171: raw_body = await request.json()
Receive(r) ==
    /\ pc[r] = "idle"
    /\ \E b \in ReqBodies :
          /\ body' = [body EXCEPT ![r] = b]
          /\ pc' = [pc EXCEPT ![r] = "parsed"]
    /\ UNCHANGED <<outreq, response, reply, gen, responses, next_id, log>>

\* line 171 raising: the inbound body is not JSON
ReceiveMalformed(r) ==
    /\ pc[r] = "idle"
    /\ Fail500(r, "json")
    /\ UNCHANGED <<response, gen, responses, next_id>>

\* Rewrite that sets tool_choice whenever tools is present, without line 176's
\* test of "tool_choice" not in body
Rewrite_OverridesChoice(b) ==
    LET b1 == IF "tools" \in DOMAIN b THEN Put(b, "tool_choice", "auto") ELSE b
        model_id == IF "model" \in DOMAIN b1 THEN b1["model"] ELSE <<>>
        parsed == parse_model_id(model_id)
    IN  [body |-> b1,
         base_model |-> parsed.base,
         vertex_body |-> Del(Put(b1, "model", parsed.base), "reasoning_effort")]

\* Rewrite that builds vertex_body from the fields it knows instead of line
\* 182's body.copy()
Rewrite_KnownFieldsOnly(b) ==
    LET b1 == IF "tools" \in DOMAIN b /\ "tool_choice" \notin DOMAIN b
              THEN Put(b, "tool_choice", "auto") ELSE b
        model_id == IF "model" \in DOMAIN b1 THEN b1["model"] ELSE <<>>
        parsed == parse_model_id(model_id)
        known == DOMAIN b1 \cap {"model", "messages", "tools", "tool_choice", "stream"}
    IN  [body |-> b1,
         base_model |-> parsed.base,
         vertex_body |-> Put([k \in known |-> b1[k]], "model", parsed.base)]

\* lines 176-184: tool_choice, the routed model, reasoning_effort
Rewrite(b) ==
    LET b1 == IF "tools" \in DOMAIN b /\ "tool_choice" \notin DOMAIN b
              THEN Put(b, "tool_choice", "auto") ELSE b
        model_id == IF "model" \in DOMAIN b1 THEN b1["model"] ELSE <<>>
        parsed == parse_model_id(model_id)
    IN  [body |-> b1,
         base_model |-> parsed.base,
         vertex_body |-> Del(Put(b1, "model", parsed.base), "reasoning_effort")]

\* lines 186-192: the outbound request
BuildRequest(rw, token) ==
    [url |-> get_endpoint_url(rw.base_model) \o <<"/chat/completions">>,
     json |-> rw.vertex_body,
     headers |-> [Authorization |-> <<"Bearer ">> \o token,
                  ContentType |-> <<"application/json">>]]

\* lines 174-195, up to the await of http_client.send
Dispatch(r) ==
    /\ pc[r] = "parsed"
    /\ LET san == role_flip_sanitize(body[r]) IN
       IF san.raised
       THEN /\ Fail500(r, "sanitize")
            /\ UNCHANGED <<response, gen, responses, next_id>>
       ELSE \E env \in TokenEnvs :
            LET rw == Rewrite(san.body) IN
            /\ body' = [body EXCEPT ![r] = rw.body]
            /\ outreq' = [outreq EXCEPT ![r] = BuildRequest(rw, get_vertex_token(env))]
            /\ pc' = [pc EXCEPT ![r] = "sent"]
            /\ UNCHANGED <<response, reply, gen, responses, next_id, log>>

\* line 195 raising: connect error or timeout
SendFails(r) ==
    /\ pc[r] = "sent"
    /\ Fail500(r, "send")
    /\ UNCHANGED <<response, gen, responses, next_id>>

\* lines 195-197 and 232: http_client.send returns a response with its status;
\* a status >= 400 goes on to read the error body, any other returns the
\* StreamingResponse
SendReturns(r) ==
    /\ pc[r] = "sent"
    /\ next_id <= Cardinality(Requests)
    /\ \E status \in Statuses, n \in 0..MaxChunks :
          /\ responses' = [responses EXCEPT ![next_id] =
                 [NoResponse EXCEPT !.status = status,
                                    !.body = [i \in 1..n |-> Chunk(next_id, i)]]]
          /\ IF status >= 400
             THEN /\ pc' = [pc EXCEPT ![r] = "aread"]
                  /\ UNCHANGED <<reply, gen>>
             ELSE /\ pc' = [pc EXCEPT ![r] = "returned"]
                  /\ reply' = [reply EXCEPT ![r] = [kind |-> "stream", status |-> status,
                                                    body |-> <<>>, state |-> "pending"]]
                  /\ gen' = [gen EXCEPT ![r] = [NoGen EXCEPT !.pc = "created"]]
    /\ response' = [response EXCEPT ![r] = next_id]
    /\ next_id' = next_id + 1
    /\ body' = [body EXCEPT ![r] = EmptyDict]
    /\ outreq' = [outreq EXCEPT ![r] = NoRequest]
    /\ UNCHANGED log

\* AreadReturns answering with a status of the proxy's own instead of line 200's
\* status_code=response.status_code
AreadReturns_OwnStatus(r) ==
    /\ pc[r] = "aread"
    /\ LET id == response[r]
           resp == responses[id]
       IN  /\ responses' = [responses EXCEPT ![id] = aclose([resp EXCEPT !.pos = Len(resp.body)])]
           /\ reply' = [reply EXCEPT ![r] = [kind |-> "response", status |-> 502,
                                             body |-> resp.body, state |-> "sent"]]
    /\ log' = [log EXCEPT ![r] = @ \cup {"ERROR"}]
    /\ pc' = [pc EXCEPT ![r] = "done"]
    /\ UNCHANGED <<body, outreq, response, gen, next_id>>

\* lines 198-200: err = await response.aread() reads the body to its end (httpx
\* closes a response whose stream is exhausted), then the Response is returned
AreadReturns(r) ==
    /\ pc[r] = "aread"
    /\ LET id == response[r]
           resp == responses[id]
       IN  /\ responses' = [responses EXCEPT ![id] = aclose([resp EXCEPT !.pos = Len(resp.body)])]
           /\ reply' = [reply EXCEPT ![r] = [kind |-> "response", status |-> resp.status,
                                             body |-> resp.body, state |-> "sent"]]
    /\ log' = [log EXCEPT ![r] = @ \cup {"ERROR"}]
    /\ pc' = [pc EXCEPT ![r] = "done"]
    /\ UNCHANGED <<body, outreq, response, gen, next_id>>

\* line 198 raising while the error body is read: control goes to line 234
AreadFails(r) ==
    /\ pc[r] = "aread"
    /\ responses' = [responses EXCEPT ![response[r]].broken = TRUE]
    /\ Fail500(r, "aread")
    /\ UNCHANGED <<response, gen, next_id>>

\* line 232, taken up by the server: the status line and headers go out and
\* the generator is iterated
StartStream(r) ==
    /\ pc[r] = "returned"
    /\ pc' = [pc EXCEPT ![r] = "streaming"]
    /\ reply' = [reply EXCEPT ![r].state = "open"]
    /\ gen' = [gen EXCEPT ![r].pc = "reading"]
    /\ UNCHANGED <<body, outreq, response, responses, next_id, log>>

\* ReadChunk that yields only non-first chunks: the first chunk is consumed for
\* the TTFT measurement of lines 210-213 and never yielded
ReadChunk_SwallowsFirst(r) ==
    /\ gen[r].pc = "reading"
    /\ LET id == response[r]
           resp == responses[id]
       IN  /\ resp.pos < Len(resp.body)
           /\ responses' = [responses EXCEPT ![id].pos = @ + 1]
           /\ IF resp.pos = 0
              THEN UNCHANGED <<reply, gen>>
              ELSE /\ reply' = [reply EXCEPT ![r].body = Append(@, resp.body[resp.pos + 1])]
                   /\ gen' = [gen EXCEPT ![r].pc = "yielded"]
    /\ log' = [log EXCEPT ![r] = IF gen[r].chunk_count = 0 THEN @ \cup {"STREAM START"} ELSE @]
    /\ UNCHANGED <<pc, body, outreq, response, next_id>>

\* ReadChunk reading from the response most recently returned by
\* http_client.send, as if response were one variable of the module
ReadChunk_LatestResponse(r) ==
    /\ gen[r].pc = "reading"
    /\ LET id == next_id - 1
           resp == responses[id]
       IN  /\ resp.pos < Len(resp.body)
           /\ responses' = [responses EXCEPT ![id].pos = @ + 1]
           /\ reply' = [reply EXCEPT ![r].body = Append(@, resp.body[resp.pos + 1])]
    /\ log' = [log EXCEPT ![r] = IF gen[r].chunk_count = 0 THEN @ \cup {"STREAM START"} ELSE @]
    /\ gen' = [gen EXCEPT ![r].pc = "yielded"]
    /\ UNCHANGED <<pc, body, outreq, response, next_id>>

\* lines 209-215: the next chunk arrives and is yielded to the caller
ReadChunk(r) ==
    /\ gen[r].pc = "reading"
    /\ LET id == response[r]
           resp == responses[id]
       IN  /\ resp.pos < Len(resp.body)
           /\ responses' = [responses EXCEPT ![id].pos = @ + 1]
           /\ reply' = [reply EXCEPT ![r].body = Append(@, resp.body[resp.pos + 1])]
    /\ log' = [log EXCEPT ![r] = IF gen[r].chunk_count = 0 THEN @ \cup {"STREAM START"} ELSE @]
    /\ gen' = [gen EXCEPT ![r].pc = "yielded"]
    /\ UNCHANGED <<pc, body, outreq, response, next_id>>

\* lines 217-222: the generator is resumed after the yield
Resume(r) ==
    /\ gen[r].pc = "yielded"
    /\ LET chunk == reply[r].body[Len(reply[r].body)] IN
       gen' = [gen EXCEPT ![r].pc = "reading",
                          ![r].total_bytes = @ + ChunkLen(chunk),
                          ![r].chunk_count = @ + 1]
    /\ log' = [log EXCEPT ![r] = IF (gen[r].chunk_count + 1) % 50 = 0
                                 THEN @ \cup {"STREAMING"} ELSE @]
    /\ UNCHANGED <<pc, body, outreq, response, reply, responses, next_id>>

\* lines 227-230: the finally clause, entered with the response in state resp
Finally(r, resp) ==
    /\ responses' = [responses EXCEPT ![response[r]] = aclose(resp)]
    /\ gen' = [gen EXCEPT ![r].pc = "closed"]
    /\ pc' = [pc EXCEPT ![r] = "done"]

\* line 209 at the end of the body (httpx closes the exhausted response), then
\* lines 227-230
StreamEnd(r) ==
    /\ gen[r].pc = "reading"
    /\ responses[response[r]].pos = Len(responses[response[r]].body)
    /\ Finally(r, aclose(responses[response[r]]))
    /\ reply' = [reply EXCEPT ![r].state = "complete"]
    /\ log' = [log EXCEPT ![r] = @ \cup {"STREAM DONE"}]
    /\ UNCHANGED <<body, outreq, response, next_id>>

\* StreamError as it would be were the generator's exception caught by the
\* handler's except clause of lines 234-238
StreamError_To500(r) ==
    /\ gen[r].pc = "reading"
    /\ responses' = [responses EXCEPT ![response[r]] = aclose([@ EXCEPT !.broken = TRUE])]
    /\ gen' = [gen EXCEPT ![r].pc = "closed"]
    /\ Fail500(r, "stream")
    /\ UNCHANGED <<response, next_id>>

\* lines 224-230: aiter_bytes raises; the exception is printed and raised again
\* out of the generator, to the server that iterates it
StreamError(r) ==
    /\ gen[r].pc = "reading"
    /\ Finally(r, [responses[response[r]] EXCEPT !.broken = TRUE])
    /\ reply' = [reply EXCEPT ![r].state = "aborted"]
    /\ log' = [log EXCEPT ![r] = @ \cup {"STREAM ERROR", "STREAM DONE"}]
    /\ UNCHANGED <<body, outreq, response, next_id>>

\* Disconnect with the rest of the backend stream drained before the close
Disconnect_Drains(r) ==
    /\ gen[r].pc \in {"reading", "yielded"}
    /\ Finally(r, [responses[response[r]] EXCEPT !.pos = Len(responses[response[r]].body)])
    /\ reply' = [reply EXCEPT ![r].state = "disconnected"]
    /\ log' = [log EXCEPT ![r] = @ \cup {"STREAM DONE"}]
    /\ UNCHANGED <<body, outreq, response, next_id>>

\* lines 227-230 alone: the caller is gone and the server cancels the generator
\* where it is suspended (CancelledError and GeneratorExit are no Exception)
Disconnect(r) ==
    /\ gen[r].pc \in {"reading", "yielded"}
    /\ Finally(r, responses[response[r]])
    /\ reply' = [reply EXCEPT ![r].state = "disconnected"]
    /\ log' = [log EXCEPT ![r] = @ \cup {"STREAM DONE"}]
    /\ UNCHANGED <<body, outreq, response, next_id>>

-----------------------------------------------------------------------------
(* Specifications *)

SanIdle ==
    /\ san_pc = "off"
    /\ san_body = EmptyDict
    /\ san_out1 = NoResult
    /\ san_out2 = NoResult

ReqIdle ==
    /\ pc = [r \in Requests |-> "idle"]
    /\ body = [r \in Requests |-> EmptyDict]
    /\ outreq = [r \in Requests |-> NoRequest]
    /\ response = [r \in Requests |-> 0]
    /\ reply = [r \in Requests |-> NoReply]
    /\ gen = [r \in Requests |-> NoGen]
    /\ responses = [id \in 1..Cardinality(Requests) |-> NoResponse]
    /\ next_id = 1
    /\ log = [r \in Requests |-> {}]

\* the server started, no request received yet
Init == SanIdle /\ ReqIdle

Next ==
    \E r \in Requests :
        \/ Receive(r) /\ UNCHANGED san_vars
        \/ ReceiveMalformed(r) /\ UNCHANGED san_vars
        \/ Dispatch(r) /\ UNCHANGED san_vars
        \/ SendFails(r) /\ UNCHANGED san_vars
        \/ SendReturns(r) /\ UNCHANGED san_vars
        \/ AreadReturns(r) /\ UNCHANGED san_vars
        \/ AreadFails(r) /\ UNCHANGED san_vars
        \/ StartStream(r) /\ UNCHANGED san_vars
        \/ ReadChunk(r) /\ UNCHANGED san_vars
        \/ Resume(r) /\ UNCHANGED san_vars
        \/ StreamEnd(r) /\ UNCHANGED san_vars
        \/ StreamError(r) /\ UNCHANGED san_vars
        \/ Disconnect(r) /\ UNCHANGED san_vars

Spec == Init /\ [][Next]_vars

\* the sanitizer alone, on every input body
SanInit ==
    /\ san_pc = "input"
    /\ san_body \in SanBodies
    /\ san_out1 = NoResult
    /\ san_out2 = NoResult
    /\ ReqIdle

SanNext ==
    \/ SanitizeOnce /\ UNCHANGED req_vars
    \/ SanitizeTwice /\ UNCHANGED req_vars

SanSpec == SanInit /\ [][SanNext]_vars

-----------------------------------------------------------------------------
(* The rewriting of lines 174-192 alone, on every shape of the request body *)

\* model identifiers, split at their hyphens
ModelIds ==
    {<<>>, <<"gemini", "-", "2.5", "-", "pro">>, <<"gemini", "-", "3", "-", "pro">>,
     <<"gemini", "-", "3", "-", "pro", "-", "none">>, <<"gemini", "-", "2.5", "-", "pro", "-", "low">>,
     <<"gemini", "-", "2.5", "-", "flash", "-", "medium">>, <<"gemini", "-", "3", "-", "pro", "-", "high">>,
     <<"tuned", "-", "high", "-", "high">>, <<"tuned", "-", "low", "-", "pro">>,
     <<"-", "low">>, <<"high">>, <<"gemini", "-", "highest">>, <<"gemini", "-", "high", "-">>}

\* the request bodies: every combination of the top-level fields
RouteBodies ==
    {OptPut(OptPut(OptPut(OptPut(OptPut(OptPut([temperature |-> 7],
        "model", m), "messages", ms), "tools", tl), "tool_choice", tc),
        "reasoning_effort", re), "stream", st) :
        m \in Opt(ModelIds),
        ms \in Opt({<<[role |-> "user", content |-> CStr(<<"hi">>)]>>}),
        tl \in Opt({"tools"}), tc \in Opt({"required"}),
        re \in Opt({"low"}), st \in Opt({TRUE})}

\* a request whose body has just been received, the other request idle
RouteInit ==
    /\ SanIdle
    /\ \E first \in Requests, b \in RouteBodies :
          /\ pc = [r \in Requests |-> IF r = first THEN "parsed" ELSE "idle"]
          /\ body = [r \in Requests |-> IF r = first THEN b ELSE EmptyDict]
    /\ outreq = [r \in Requests |-> NoRequest]
    /\ response = [r \in Requests |-> 0]
    /\ reply = [r \in Requests |-> NoReply]
    /\ gen = [r \in Requests |-> NoGen]
    /\ responses = [id \in 1..Cardinality(Requests) |-> NoResponse]
    /\ next_id = 1
    /\ log = [r \in Requests |-> {}]

RouteNext ==
    \E r \in Requests :
        \/ Dispatch(r) /\ UNCHANGED san_vars
        \/ SendFails(r) /\ UNCHANGED san_vars

RouteSpec == RouteInit /\ [][RouteNext]_vars

-----------------------------------------------------------------------------
(* Claims about the sanitizer *)

\* the sanitizer returned a message list for the input message list
SanDone == san_pc # "input" /\ ~san_out1.raised /\ "messages" \in DOMAIN san_body

InMsgs == san_body["messages"]
OutMsgs == san_out1.body["messages"]

ToolFields == {"tool_calls", "function_call", "tool_call_id", "name"}

\* C2: after role_flip_sanitize every output message has a non-empty string
\* content and none of the fields tool_calls, function_call, tool_call_id,
\* name, whatever the input role.
C2_NoToolFieldsRemain ==
    SanDone =>
        \A i \in 1..Len(OutMsgs) :
            /\ OutMsgs[i]["content"].t = "str"
            /\ OutMsgs[i]["content"].s # <<>>
            /\ DOMAIN OutMsgs[i] \cap ToolFields = {}

\* C3: sanitizing the output of the sanitizer again returns the same message
\* list with exactly one more system directive in front: no role is changed
\* and no content is wrapped a second time.
C3_IdempotentUpToDirective ==
    san_pc = "twice" /\ "messages" \in DOMAIN san_body =>
        /\ ~san_out2.raised
        /\ san_out2.body["messages"] = <<system_instruction>> \o OutMsgs

\* C3 witness: a second pass over a list holding a flipped assistant message
\* and a wrapped tool result
C3_Witness ==
    /\ san_pc = "twice"
    /\ "messages" \in DOMAIN san_body
    /\ \E i \in 1..Len(InMsgs) :
          InMsgs[i]["role"] = "assistant" /\ OutMsgs[i + 1]["role"] = "user"
    /\ \E i \in 1..Len(InMsgs) :
          InMsgs[i]["role"] = "tool" /\ OutMsgs[i + 1]["role"] = "user"

\* C8: every input message that carries a non-empty tool-call list comes out
\* with role user, one "[Log: Tool '<name>' called]" line per call in list
\* order, and no tool_calls field.
C8_ToolCallsBecomeLog ==
    SanDone =>
        \A i \in 1..Len(InMsgs) :
            ("tool_calls" \in DOMAIN InMsgs[i]
                /\ InMsgs[i]["tool_calls"].t = "list"
                /\ InMsgs[i]["tool_calls"].v # <<>>) =>
            /\ OutMsgs[i + 1]["role"] = "user"
            /\ IsSubSeq(ToolLog(InMsgs[i]["tool_calls"].v), OutMsgs[i + 1]["content"].s)
            /\ "tool_calls" \notin DOMAIN OutMsgs[i + 1]

\* C9: every output message has a role among system, user, assistant.
C9_OutputRoles ==
    SanDone =>
        \A i \in 1..Len(OutMsgs) : OutMsgs[i]["role"] \in {"system", "user", "assistant"}

-----------------------------------------------------------------------------
(* Claims about the request handler *)

\* the backend response request r holds
RespOf(r) == responses[response[r]]

\* C1: once a dispatch that obtained a backend response has completed, that
\* response has been closed exactly once, whatever the outcome.
C1_ClosedExactlyOnce ==
    \A r \in Requests :
        (pc[r] = "done" /\ response[r] # 0) =>
            (RespOf(r).is_closed /\ RespOf(r).releases = 1)

\* C4 as stated: every backend status >= 400 reaches the caller as a
\* non-streamed response with that status and the complete error body.
C4_ErrorAlwaysRelayed ==
    \A r \in Requests :
        (response[r] # 0 /\ RespOf(r).status >= 400) =>
            /\ reply[r].kind # "stream"
            /\ gen[r].pc = "none"
            /\ pc[r] = "done" =>
                  reply[r] = [kind |-> "response", status |-> RespOf(r).status,
                              body |-> RespOf(r).body, state |-> "sent"]

\* C4 amended: a backend status >= 400 whose error body is read to its end
\* reaches the caller as a non-streamed response with that status and that
\* body; when reading the error body fails the caller gets the handler's 500;
\* in neither case does streaming start.
C4_ErrorRelayedWhenRead ==
    \A r \in Requests :
        (response[r] # 0 /\ RespOf(r).status >= 400) =>
            /\ reply[r].kind # "stream"
            /\ gen[r].pc = "none"
            /\ (pc[r] = "done" /\ ~RespOf(r).broken) =>
                  reply[r] = [kind |-> "response", status |-> RespOf(r).status,
                              body |-> RespOf(r).body, state |-> "sent"]
            /\ (pc[r] = "done" /\ RespOf(r).broken) =>
                  (reply[r].kind = "http_exception" /\ reply[r].status = 500)

\* C4 witness: an error body of several chunks relayed with its status
C4_Witness ==
    \E r \in Requests :
        /\ pc[r] = "done"
        /\ response[r] # 0
        /\ RespOf(r).status >= 400
        /\ reply[r].kind = "response"
        /\ Len(reply[r].body) >= 2

\* C5: while a response with status < 400 is relayed, the chunks delivered to
\* the caller are exactly the chunks read from the backend so far, in order
\* (so each was delivered before the next was read), and a stream that
\* completes normally delivered the whole backend body.
C5_RelayIsPrefix ==
    \A r \in Requests :
        reply[r].kind = "stream" =>
            /\ reply[r].body = SubSeq(RespOf(r).body, 1, RespOf(r).pos)
            /\ reply[r].state = "complete" => reply[r].body = RespOf(r).body

\* C5 witness: a stream of several chunks relayed to its end
C5_Witness ==
    \E r \in Requests :
        /\ reply[r].kind = "stream"
        /\ reply[r].state = "complete"
        /\ Len(reply[r].body) >= 2

\* C6: after a caller disconnect with k of n chunks relayed, the response is
\* closed and no chunk beyond the k relayed ones has been read from the backend.
C6_DisconnectReleases ==
    \A r \in Requests :
        reply[r].state = "disconnected" =>
            /\ RespOf(r).is_closed
            /\ RespOf(r).releases = 1
            /\ RespOf(r).pos = Len(reply[r].body)

\* C6 witness: a disconnect after some but not all chunks
C6_Witness ==
    \E r \in Requests :
        /\ reply[r].state = "disconnected"
        /\ Len(reply[r].body) >= 1
        /\ Len(reply[r].body) < Len(RespOf(r).body)

\* C7: once relaying has begun no step turns the answer into an error
\* response: it stays a stream with the status committed, the except clause
\* of chat_completions is not taken, and an aborted stream shows in the log only.
C7_NoDowngradeAfterStart ==
    [][\A r \in Requests :
          (pc[r] = "streaming" \/ (pc[r] = "done" /\ reply[r].kind = "stream")) =>
              /\ reply'[r].kind = "stream"
              /\ reply'[r].status = reply[r].status
              /\ "EXCEPTION" \notin log'[r]
              /\ reply'[r].state = "aborted" => "STREAM ERROR" \in log'[r]]_vars

\* C7 witness: an exception while relaying, after chunks were sent
C7_Witness ==
    \E r \in Requests :
        /\ reply[r].kind = "stream"
        /\ reply[r].state = "aborted"
        /\ Len(reply[r].body) >= 1

\* C10: no outbound request is dispatched with a missing or empty bearer
\* token; a token provider failure ends the request with a 500 instead.
C10_NoDispatchWithoutToken ==
    \A r \in Requests :
        pc[r] = "sent" => outreq[r].headers.Authorization # <<"Bearer ">>

-----------------------------------------------------------------------------
(* Claims about the rewriting of the request body *)

\* model_id = body.get("model", "") of a request body
ModelIdOf(b) == IF "model" \in DOMAIN b THEN b["model"] ELSE <<>>

\* the effort table of the specification: key |-> effort
EffortKeys == {"none", "low", "medium", "high"}
EffortOf(k) == IF k = "none" THEN "minimal" ELSE k

\* the inbound identifier ends with "-" and the key k
HasSuffix(id, k) == Len(id) >= 2 /\ id[Len(id) - 1] = "-" /\ id[Len(id)] = k

\* the identifier without its last two tokens, the hyphen and the key
Stripped(id) == SubSeq(id, 1, Len(id) - 2)

\* C11: the outbound body has model equal to the routed base model, and its
\* reasoning_effort is the resolved effort when the client's model identifier
\* ends with a recognized suffix; reasoning_effort is absent only when no
\* effort was resolved.
C11_EffortHintForwarded ==
    \A r \in Requests :
        pc[r] = "sent" =>
            LET id == ModelIdOf(body[r])
                out == outreq[r].json
            IN  /\ \A k \in EffortKeys :
                       HasSuffix(id, k) =>
                           /\ out["model"] = Stripped(id)
                           /\ "reasoning_effort" \in DOMAIN out
                           /\ out["reasoning_effort"] = EffortOf(k)
                /\ (\A k \in EffortKeys : ~HasSuffix(id, k)) =>
                       (out["model"] = id /\ "reasoning_effort" \notin DOMAIN out)

\* C15: the outbound body carries tool_choice = "auto" when the inbound body
\* has tools and no tool_choice; a tool_choice of the client is forwarded
\* unchanged; none is added when the inbound body has no tools.
C15_ToolChoice ==
    [][\A r \in Requests :
          (pc[r] = "parsed" /\ pc'[r] = "sent") =>
              LET in == body[r]
                  out == outreq'[r].json
              IN  /\ ("tools" \in DOMAIN in /\ "tool_choice" \notin DOMAIN in) =>
                         ("tool_choice" \in DOMAIN out /\ out["tool_choice"] = "auto")
                  /\ "tool_choice" \in DOMAIN in =>
                         ("tool_choice" \in DOMAIN out /\ out["tool_choice"] = in["tool_choice"])
                  /\ ("tools" \notin DOMAIN in /\ "tool_choice" \notin DOMAIN in) =>
                         "tool_choice" \notin DOMAIN out]_vars

\* C15 witness: a request with tools and no tool_choice has been dispatched
C15_Witness ==
    \E r \in Requests :
        /\ pc[r] = "sent"
        /\ "tools" \in DOMAIN outreq[r].json
        /\ outreq[r].json["tool_choice"] = "auto"

RewrittenFields == {"model", "messages", "tool_choice", "reasoning_effort"}

\* C17: between the inbound body and the outbound body only model, messages,
\* tool_choice and reasoning_effort may differ: every other inbound field is
\* in the outbound body with the same value, and no other field is added.
C17_OtherFieldsPassThrough ==
    [][\A r \in Requests :
          (pc[r] = "parsed" /\ pc'[r] = "sent") =>
              LET in == body[r]
                  out == outreq'[r].json
              IN  /\ \A k \in DOMAIN in \ RewrittenFields :
                         k \in DOMAIN out /\ out[k] = in[k]
                  /\ \A k \in DOMAIN out \ RewrittenFields : k \in DOMAIN in]_vars

\* C17 witness: a dispatched request with tools, stream and a passthrough field
C17_Witness ==
    \E r \in Requests :
        /\ pc[r] = "sent"
        /\ {"tools", "stream", "temperature"} \subseteq DOMAIN outreq[r].json
        /\ outreq[r].json["model"] # ModelIdOf(body[r])

\* C19: parse_model_id of an identifier that ends with "-" and a key of the
\* effort table returns the identifier without that final hyphen and key
\* (earlier occurrences kept) and the mapped effort; of any other identifier
\* it returns the identifier itself and no effort.
C19_ParseModelId ==
    \A r \in Requests :
        pc[r] \in {"parsed", "sent"} =>
            LET id == ModelIdOf(body[r])
                got == parse_model_id(id)
            IN  /\ \A k \in EffortKeys :
                       HasSuffix(id, k) =>
                           (got.base = Stripped(id) /\ got.effort = EffortOf(k))
                /\ (\A k \in EffortKeys : ~HasSuffix(id, k)) =>
                       (got.base = id /\ got.effort = "<None>")
                /\ pc[r] = "sent" => outreq[r].json["model"] = got.base

\* C19 witness: a dispatched identifier in which the suffix occurs twice
C19_Witness ==
    \E r \in Requests :
        /\ pc[r] = "sent"
        /\ ModelIdOf(body[r]) = <<"tuned", "-", "high", "-", "high">>
        /\ outreq[r].json["model"] = <<"tuned", "-", "high">>

-----------------------------------------------------------------------------
(* Further claims about the sanitizer *)

ReadOnlyMarker == "[Internal Execution Result - READ ONLY]"
ReportLine == "[SYSTEM: Action finished. Please report status to user now.]"

\* the text between the marker line and the report line of a wrapped result
Wrapped(c) == SubSeq(c, 3, Len(c) - 3)

\* the elision marker for n removed characters
ElisionMarker(n) ==
    <<NL, NL, "[...System: Output Truncated (">> \o PyStrNat(n) \o <<" chars removed)...]", NL, NL>>

\* C12: every tool or function message comes out with role user, a content
\* that begins with the read-only marker, goes on with the original content
\* (whole, or its head and tail when truncated) and ends with the report
\* line, and without tool_call_id and name.
C12_ToolResultWrapped ==
    SanDone =>
        \A i \in 1..Len(InMsgs) :
            InMsgs[i]["role"] \in {"tool", "function"} =>
                LET flat == Flatten(InMsgs[i])
                    c == OutMsgs[i + 1]["content"].s
                    half == MAX_LOG_LENGTH \div 2
                IN  /\ OutMsgs[i + 1]["role"] = "user"
                    /\ Len(c) >= 5
                    /\ SubSeq(c, 1, 2) = <<ReadOnlyMarker, NL>>
                    /\ SubSeq(c, Len(c) - 2, Len(c)) = <<NL, NL, ReportLine>>
                    /\ Len(flat) <= MAX_LOG_LENGTH => Wrapped(c) = flat
                    /\ Len(flat) > MAX_LOG_LENGTH =>
                          /\ SubSeq(Wrapped(c), 1, half) = SubSeq(flat, 1, half)
                          /\ SubSeq(Wrapped(c), Len(Wrapped(c)) - half + 1, Len(Wrapped(c)))
                                = SubSeq(flat, Len(flat) - half + 1, Len(flat))
                    /\ "tool_call_id" \notin DOMAIN OutMsgs[i + 1]
                    /\ "name" \notin DOMAIN OutMsgs[i + 1]

\* C12 witness: a function message with tool_call_id and name, sanitized
C12_Witness ==
    /\ SanDone
    /\ \E i \in 1..Len(InMsgs) :
          /\ InMsgs[i]["role"] = "function"
          /\ {"tool_call_id", "name"} \subseteq DOMAIN InMsgs[i]
          /\ Flatten(InMsgs[i]) # <<>>

\* C13: a tool or function content of length L > MAX_LOG_LENGTH is wrapped as
\* its first max/2 characters, the elision marker for L - max characters and
\* its last max/2 characters, max plus the marker's length in all; a content
\* of length <= max is wrapped as it is.
C13_Truncation ==
    SanDone =>
        \A i \in 1..Len(InMsgs) :
            InMsgs[i]["role"] \in {"tool", "function"} =>
                LET flat == Flatten(InMsgs[i])
                    L == Len(flat)
                    half == MAX_LOG_LENGTH \div 2
                    w == Wrapped(OutMsgs[i + 1]["content"].s)
                IN  /\ L > MAX_LOG_LENGTH =>
                          /\ w = SubSeq(flat, 1, half) \o ElisionMarker(L - MAX_LOG_LENGTH)
                                 \o SubSeq(flat, L - half + 1, L)
                          /\ Len(w) = MAX_LOG_LENGTH + Len(ElisionMarker(L - MAX_LOG_LENGTH))
                    /\ L <= MAX_LOG_LENGTH => w = flat

\* C13 witness: a tool content three characters over the maximum, and one of
\* exactly the maximum
C13_Witness ==
    /\ SanDone
    /\ \E i \in 1..Len(InMsgs) :
          /\ InMsgs[i]["role"] = "tool"
          /\ Len(Flatten(InMsgs[i])) = MAX_LOG_LENGTH + 3
          /\ Len(Wrapped(OutMsgs[i + 1]["content"].s)) < Len(Flatten(InMsgs[i])) + 7

\* C14: role_flip_sanitize returns for every request body; it never raises.
C14_NeverRaises ==
    san_pc # "input" => ~san_out1.raised

\* a user message with a non-empty string content and no tool field
PlainUser(msg) ==
    /\ msg["role"] = "user"
    /\ "content" \in DOMAIN msg
    /\ msg["content"].t = "str"
    /\ msg["content"].s # <<>>
    /\ DOMAIN msg \cap ToolFields = {}

\* C16: n input messages give n + 1 output messages: the fixed directive,
\* then one message per input message in the input's order; a user message
\* with non-empty string content and no tool field is output unchanged.
C16_DirectiveThenOnePerMessage ==
    SanDone =>
        /\ Len(OutMsgs) = Len(InMsgs) + 1
        /\ OutMsgs[1] = system_instruction
        /\ \A i \in 1..Len(InMsgs) :
              /\ PlainUser(InMsgs[i]) => OutMsgs[i + 1] = InMsgs[i]
              /\ IsSubSeq(Head_(Flatten(InMsgs[i]), MAX_LOG_LENGTH \div 2),
                          OutMsgs[i + 1]["content"].s)
              /\ DOMAIN OutMsgs[i + 1] \subseteq DOMAIN InMsgs[i] \cup {"content"}

\* C16 witness: a plain user message followed by a tool result
C16_Witness ==
    /\ SanDone
    /\ Len(InMsgs) = 2
    /\ PlainUser(InMsgs[1])
    /\ InMsgs[2]["role"] = "tool"

\* the content a message keeps: its flattened text, or the placeholder of the
\* flattening step when that text is empty
KeptContent(msg) == IF Flatten(msg) = <<>> THEN <<".">> ELSE Flatten(msg)

\* C20: a user, system or developer message is never re-attributed nor
\* wrapped, whatever its text (developer only becomes system); an assistant
\* or model message without tool_calls, function_call and marker substring
\* keeps its role and its flattened content.
C20_OnlyAssistantFlips ==
    SanDone =>
        \A i \in 1..Len(InMsgs) :
            LET in == InMsgs[i]
                out == OutMsgs[i + 1]
            IN  /\ in["role"] \in {"user", "system", "developer"} =>
                      /\ out["role"] = (IF in["role"] = "developer" THEN "system" ELSE in["role"])
                      /\ out["content"].s = KeptContent(in)
                /\ (/\ in["role"] \in {"assistant", "model"}
                    /\ "tool_calls" \notin DOMAIN in
                    /\ "function_call" \notin DOMAIN in
                    /\ \A j \in 1..Len(Flatten(in)) :
                          Flatten(in)[j] \notin {"[Past Action", "[System Log", "[Log:", "[Internal Context"}) =>
                      /\ out["role"] = in["role"]
                      /\ out["content"].s = KeptContent(in)

\* C20 witness: a user message whose text holds a marker substring, sanitized
C20_Witness ==
    /\ SanDone
    /\ \E i \in 1..Len(InMsgs) :
          /\ InMsgs[i]["role"] = "user"
          /\ HasMarker(Flatten(InMsgs[i]))
          /\ OutMsgs[i + 1]["role"] = "user"

-----------------------------------------------------------------------------
(* Claims about concurrent requests *)

\* request r holds a backend response
Holds(r) == response[r] # 0

\* request r takes no part in the step: its handler and its generator stay
\* where they are
Idle(r) == pc'[r] = pc[r] /\ gen'[r] = gen[r]

\* C18: no two requests ever hold the same backend response, and a step of
\* one request (reading, finishing, failing, being cancelled) leaves every
\* other request's response unread and unclosed and its body unchanged.
C18_SessionsIsolated ==
    [][ /\ \A r1, r2 \in Requests :
              (r1 # r2 /\ Holds(r1)' /\ Holds(r2)') => response'[r1] # response'[r2]
        /\ \A q \in Requests :
              Idle(q) =>
                  /\ body'[q] = body[q]
                  /\ outreq'[q] = outreq[q]
                  /\ response'[q] = response[q]
                  /\ reply'[q] = reply[q]
                  /\ Holds(q) => responses'[response[q]] = responses[response[q]]
      ]_vars

\* C18 witness: one request's response is closed while the other request,
\* holding another response, is in the middle of reading it
C18_Witness ==
    \E r1, r2 \in Requests :
        /\ r1 # r2
        /\ Holds(r1) /\ Holds(r2)
        /\ RespOf(r1).is_closed
        /\ gen[r2].pc = "reading"
        /\ ~RespOf(r2).is_closed
        /\ RespOf(r2).pos > 0
        /\ RespOf(r2).pos < Len(RespOf(r2).body)

====
